---- MODULE Spec2Model ----
(***************************************************************************)
(* The waste-report lifecycle of the backend: report creation, claiming,   *)
(* status updates and administrative assignment (routes/waste.js), over    *)
(* the WasteReport and User collections (models/WasteReport.js, User.js).  *)
(*                                                                         *)
(* Every handler is an async function: it suspends at each `await`, and    *)
(* other requests run in between.  A handler that has read its document    *)
(* and not yet written it is an element of `pending`.  A mongoose save()   *)
(* sends a $set of the paths the handler modified on its own copy (a path  *)
(* assigned the value it already had is not modified), with no version     *)
(* check on scalar paths.                                                  *)
(*                                                                         *)
(* Spec is the lifecycle with its concurrency.  SpecLedger is the reward   *)
(* ledger alone (User.addRewardPoints), SpecDiscovery the two geo queries  *)
(* (GET /reports/nearby, GET /api/facilities) and SpecImage the image      *)
(* route (GET /image/:filename), each over stored collections.             *)
(* SpecFailures adds the failure of a save to the lifecycle, SpecFrame is  *)
(* claiming and status updates over two stored reports, SpecCredits and    *)
(* SpecUpload are report creation alone, without and with images, and      *)
(* SpecAuth is the session of a user (routes/auth.js, middleware/auth.js)  *)
(* with the administrator's activation switch.                             *)
(***************************************************************************)
EXTENDS Integers, Sequences, FiniteSets

VARIABLES
    reports,    \* the WasteReport collection: reports[id] is the stored document
    users,      \* the User collection, the rewards sub-document of each user
    pending,    \* handlers suspended between their read and their save
    now,        \* the clock read by new Date(), in requests received so far
    res,        \* the response most recently sent
    claimed,    \* claimed[id]: the workers answered 200 by PUT /reports/id/claim
    facilities, \* the Facility collection: facilities[id] is the stored document
    accounts    \* the User collection, isActive and refreshToken of each user,
                \* with the tokens handed out and the refresh tokens replaced

vars == <<reports, users, pending, now, res, claimed, facilities, accounts>>

----------------------------------------------------------------------------
(* Bounds of the model *)

MaxPending == 2     \* handlers in flight at once
MaxRequests == 4    \* requests received over a run
MaxTotal == 10500   \* totalEarned of a user over a run of credits
MaxStored == 2      \* documents of a collection that a query runs over
MaxSubmitted == 3   \* reports created over a run of submissions
MaxSeconds == 1     \* seconds that pass over a run of logins and refreshes

----------------------------------------------------------------------------
(* Users and roles (User.role) *)

Citizens == {"c1"}
Workers == {"w1", "w2"}
Admins == {"a1"}
Users == Citizens \cup Workers \cup Admins

NoUser == "none"

role(u) ==
    IF u \in Workers THEN "waste_worker"
    ELSE IF u \in Admins THEN "admin"
    ELSE "citizen"

\* authorize(...roles): the 403 of the middleware
authorize(u, roles) == role(u) \in roles

----------------------------------------------------------------------------
(* The WasteReport document *)

Statuses ==
    {"reported", "acknowledged", "assigned", "in_progress",
     "completed", "verified", "rejected"}

validStatuses ==
    {"acknowledged", "assigned", "in_progress", "completed", "verified", "rejected"}

NoNotes == "none"
Notes == {NoNotes, "n1"}

\* the notes of a request body the handler reads: it uses them for completed only
NotesFor(status) == IF status = "completed" THEN Notes ELSE {NoNotes}

\* the ids a request can name; a handler reads and saves the one report it names
ReportIds == {1}

\* the ids findById finds
Stored == 1..Len(reports)

Exists(id) == id \in Stored

\* location.coordinates: the places of the model lie on one meridian, and a
\* place is its distance from the start of the meridian, in metres
Places == {3000, 12000}

\* the location of the reports of the lifecycle runs
Here == 3000

\* new WasteReport({... reporter: req.user._id, location, images, status:
\* 'reported'}), of a request that uploads no file
NewReport(u) ==
    [reporter |-> u,
     status |-> "reported",
     assignedWorker |-> NoUser,
     actualCollection |-> {},
     location |-> Here,
     images |-> <<>>]

----------------------------------------------------------------------------
(* The rewards of a user *)

NewRewards == [points |-> 0, totalEarned |-> 0, level |-> "bronze"]

\* addRewardPoints that forgets totalEarned
addRewardPointsNoTotal(r, points) ==
    LET total == r.totalEarned
    IN [points |-> r.points + points,
        totalEarned |-> total,
        level |-> IF total >= 10000 THEN "platinum"
                  ELSE IF total >= 5000 THEN "gold"
                  ELSE IF total >= 1000 THEN "silver"
                  ELSE r.level]

\* addRewardPoints with thresholds that are passed, not reached
addRewardPointsStrict(r, points) ==
    LET total == r.totalEarned + points
    IN [points |-> r.points + points,
        totalEarned |-> total,
        level |-> IF total > 10000 THEN "platinum"
                  ELSE IF total > 5000 THEN "gold"
                  ELSE IF total > 1000 THEN "silver"
                  ELSE r.level]

\* addRewardPoints with the labels of its two upper thresholds exchanged
addRewardPointsSwapped(r, points) ==
    LET total == r.totalEarned + points
    IN [points |-> r.points + points,
        totalEarned |-> total,
        level |-> IF total >= 10000 THEN "gold"
                  ELSE IF total >= 5000 THEN "platinum"
                  ELSE IF total >= 1000 THEN "silver"
                  ELSE r.level]

\* userSchema.methods.addRewardPoints, on the handler's copy of the user
addRewardPoints(r, points) ==
    LET total == r.totalEarned + points
    IN [points |-> r.points + points,
        totalEarned |-> total,
        level |-> IF total >= 10000 THEN "platinum"
                  ELSE IF total >= 5000 THEN "gold"
                  ELSE IF total >= 1000 THEN "silver"
                  ELSE r.level]

\* this.save() of a user: $set of the rewards paths whose value on the
\* handler's copy (mine) differs from the value the handler read (was)
saveRewards(doc, was, mine) ==
    [points |-> IF mine.points # was.points THEN mine.points ELSE doc.points,
     totalEarned |-> IF mine.totalEarned # was.totalEarned
                     THEN mine.totalEarned ELSE doc.totalEarned,
     level |-> IF mine.level # was.level THEN mine.level ELSE doc.level]

\* the points of a submitted report: addRewardPoints(10)
SubmissionPoints == 10

\* the points of one call of addRewardPoints(points)
CreditPoints == {SubmissionPoints, 490, 2500}

----------------------------------------------------------------------------
(* Responses *)

Response(op, u, id, code, msg, name) ==
    [op |-> op, user |-> u, id |-> id, code |-> code, msg |-> msg, name |-> name]

NoResponse == Response("none", NoUser, 0, 0, "none", NoUser)

\* isActive: default true; refreshToken: not set
NoToken == "none"

NewAccount == [isActive |-> TRUE, refreshToken |-> NoToken, issued |-> {}, retired |-> {}]

----------------------------------------------------------------------------
Init ==
    /\ accounts = [u \in Users |-> NewAccount]
    /\ reports = <<>>
    /\ users = [u \in Users |-> NewRewards]
    /\ pending = {}
    /\ now = 0
    /\ res = NoResponse
    /\ claimed = [id \in ReportIds |-> {}]
    /\ facilities = <<>>

\* a request is received: one more handler runs, and time has passed
Receive ==
    /\ Cardinality(pending) < MaxPending
    /\ now < MaxRequests
    /\ now' = now + 1

\* a save that writes the whole copy of the handler over the stored document
saveAll(doc, p) ==
    [doc EXCEPT
        !.assignedWorker = p.worker,
        !.status = p.status,
        !.actualCollection = {[date |-> now, worker |-> p.user, notes |-> p.notes]}]

\* report.save(): $set of the modified paths of the handler's copy
save(doc, p) ==
    [doc EXCEPT
        !.assignedWorker = IF "assignedWorker" \in p.mod THEN p.worker ELSE @,
        !.status = IF "status" \in p.mod THEN p.status ELSE @,
        !.actualCollection =
            IF "actualCollection" \in p.mod
            THEN {[date |-> now, worker |-> p.user, notes |-> p.notes]}
            ELSE @]

----------------------------------------------------------------------------
(* POST /report *)

\* authenticate (req.user is the handler's own copy of the user document),
\* authorize('citizen', 'green_champion') and the processing of the uploaded
\* files into images; the collection holds at most capacity reports
Submit(u, capacity, images) ==
    /\ Receive
    /\ UNCHANGED <<reports, users, claimed, facilities, accounts>>
    /\ IF ~authorize(u, {"citizen", "green_champion"})
       THEN /\ res' = Response("report", u, 0, 403, "Forbidden", NoUser)
            /\ UNCHANGED pending
       ELSE LET p == [op |-> "report", user |-> u, id |-> 0,
                      rewards |-> users[u], images |-> images]
            IN /\ Len(reports)
                      + Cardinality({q \in pending : q.op = "report" /\ q.id = 0})
                      < capacity
               /\ p \notin pending
               /\ pending' = pending \cup {p}
               /\ UNCHANGED res

\* POST /report with no file, up to the one report of the lifecycle runs
Report(u) == Submit(u, Cardinality(ReportIds), <<>>)

\* await wasteReport.save()
ReportSave(p) ==
    /\ p.op = "report"
    /\ p.id = 0
    /\ reports' = Append(reports, [NewReport(p.user) EXCEPT !.images = p.images])
    /\ pending' = (pending \ {p}) \cup {[p EXCEPT !.id = Len(reports) + 1]}
    /\ UNCHANGED <<users, now, res, claimed, facilities, accounts>>

\* await req.user.addRewardPoints(10) and the 201
ReportCredit(p) ==
    /\ p.op = "report"
    /\ p.id # 0
    /\ LET mine == addRewardPoints(p.rewards, SubmissionPoints)
       IN users' = [users EXCEPT ![p.user] = saveRewards(@, p.rewards, mine)]
    /\ pending' = pending \ {p}
    /\ res' = Response("report", p.user, p.id, 201, "Created", NoUser)
    /\ UNCHANGED <<reports, now, claimed, facilities, accounts>>

\* await req.user.addRewardPoints(10) throws: the catch logs a warning, and
\* the handler goes on to the 201
ReportCreditFails(p) ==
    /\ p.op = "report"
    /\ p.id # 0
    /\ pending' = pending \ {p}
    /\ res' = Response("report", p.user, p.id, 201, "Created", NoUser)
    /\ UNCHANGED <<reports, users, now, claimed, facilities, accounts>>

----------------------------------------------------------------------------
(* PUT /reports/:id/claim *)

\* ClaimCheck without its first check: a report held by another worker passes
ClaimCheckNoOther(u, doc) ==
    IF doc.assignedWorker # NoUser /\ doc.assignedWorker = u THEN "AlreadyClaimed"
    ELSE "ok"

\* the two checks of the handler on the report it read
ClaimCheck(u, doc) ==
    IF doc.assignedWorker # NoUser /\ doc.assignedWorker # u THEN "AlreadyAssigned"
    ELSE IF doc.assignedWorker # NoUser /\ doc.assignedWorker = u THEN "AlreadyClaimed"
    ELSE "ok"

\* report.assignedWorker = req.user._id; report.status = 'assigned'
ClaimRequest(u, id, doc) ==
    [op |-> "claim", user |-> u, id |-> id,
     worker |-> u, status |-> "assigned", notes |-> NoNotes,
     mod |-> (IF doc.assignedWorker # u THEN {"assignedWorker"} ELSE {}) \cup
             (IF doc.status # "assigned" THEN {"status"} ELSE {})]

\* authenticate, authorize('waste_worker'), findById and the checks on the copy
Claim(u, id) ==
    /\ Receive
    /\ UNCHANGED <<reports, users, claimed, facilities, accounts>>
    /\ IF ~authorize(u, {"waste_worker"})
       THEN /\ res' = Response("claim", u, id, 403, "Forbidden", NoUser)
            /\ UNCHANGED pending
       ELSE IF ~Exists(id)
       THEN /\ res' = Response("claim", u, id, 404, "NotFound", NoUser)
            /\ UNCHANGED pending
       ELSE IF ClaimCheck(u, reports[id]) = "AlreadyAssigned"
       THEN /\ res' = Response("claim", u, id, 400, "AlreadyAssigned",
                               reports[id].assignedWorker)
            /\ UNCHANGED pending
       ELSE IF ClaimCheck(u, reports[id]) = "AlreadyClaimed"
       THEN /\ res' = Response("claim", u, id, 400, "AlreadyClaimed", NoUser)
            /\ UNCHANGED pending
       ELSE /\ pending' = pending \cup {ClaimRequest(u, id, reports[id])}
            /\ UNCHANGED res

\* await report.save() and the 200 of the claim
ClaimSave(p) ==
    /\ p.op = "claim"
    /\ reports' = [reports EXCEPT ![p.id] = save(@, p)]
    /\ pending' = pending \ {p}
    /\ res' = Response("claim", p.user, p.id, 200, "Claimed", NoUser)
    /\ claimed' = [claimed EXCEPT ![p.id] = @ \cup {p.user}]
    /\ UNCHANGED <<users, now, facilities, accounts>>

----------------------------------------------------------------------------
(* PUT /reports/:id/status *)

\* StatusForbidden without the !report.assignedWorker half of its condition
StatusForbiddenOtherOnly(u, doc) ==
    /\ role(u) = "waste_worker"
    /\ doc.assignedWorker # NoUser
    /\ doc.assignedWorker # u

\* the ownership check: a waste_worker may only update a report assigned to it
StatusForbidden(u, doc) ==
    /\ role(u) = "waste_worker"
    /\ (doc.assignedWorker = NoUser \/ doc.assignedWorker # u)

\* report.status = status; if completed, report.actualCollection = {...}
StatusRequest(u, id, status, notes, doc) ==
    [op |-> "status", user |-> u, id |-> id,
     worker |-> NoUser, status |-> status,
     notes |-> IF status = "completed" THEN notes ELSE NoNotes,
     mod |-> (IF doc.status # status THEN {"status"} ELSE {}) \cup
             (IF status = "completed" THEN {"actualCollection"} ELSE {})]

\* authenticate, authorize('admin', 'waste_worker'), the validStatuses check,
\* findById and the ownership check
Status(u, id, status, notes) ==
    /\ Receive
    /\ UNCHANGED <<reports, users, claimed, facilities, accounts>>
    /\ IF ~authorize(u, {"admin", "waste_worker"})
       THEN /\ res' = Response("status", u, id, 403, "Forbidden", NoUser)
            /\ UNCHANGED pending
       ELSE IF status \notin validStatuses
       THEN /\ res' = Response("status", u, id, 400, "InvalidStatus", NoUser)
            /\ UNCHANGED pending
       ELSE IF ~Exists(id)
       THEN /\ res' = Response("status", u, id, 404, "NotFound", NoUser)
            /\ UNCHANGED pending
       ELSE IF StatusForbidden(u, reports[id])
       THEN /\ res' = Response("status", u, id, 403, "NotAssignedToYou", NoUser)
            /\ UNCHANGED pending
       ELSE /\ pending' = pending \cup {StatusRequest(u, id, status, notes, reports[id])}
            /\ UNCHANGED res

\* await report.save() and the 200 of the status update
StatusSave(p) ==
    /\ p.op = "status"
    /\ reports' = [reports EXCEPT ![p.id] = save(@, p)]
    /\ pending' = pending \ {p}
    /\ res' = Response("status", p.user, p.id, 200, p.status, NoUser)
    /\ UNCHANGED <<users, now, claimed, facilities, accounts>>

----------------------------------------------------------------------------
(* PUT /reports/:id/assign *)

\* report.assignedWorker = workerId; report.status = 'assigned'
AssignRequest(u, id, workerId, doc) ==
    [op |-> "assign", user |-> u, id |-> id,
     worker |-> workerId, status |-> "assigned", notes |-> NoNotes,
     mod |-> (IF doc.assignedWorker # workerId THEN {"assignedWorker"} ELSE {}) \cup
             (IF doc.status # "assigned" THEN {"status"} ELSE {})]

\* authenticate, authorize('admin'), findById of the report and of the worker
Assign(u, id, workerId) ==
    /\ Receive
    /\ UNCHANGED <<reports, users, claimed, facilities, accounts>>
    /\ IF ~authorize(u, {"admin"})
       THEN /\ res' = Response("assign", u, id, 403, "Forbidden", NoUser)
            /\ UNCHANGED pending
       ELSE IF ~Exists(id)
       THEN /\ res' = Response("assign", u, id, 404, "NotFound", NoUser)
            /\ UNCHANGED pending
       ELSE IF role(workerId) # "waste_worker"
       THEN /\ res' = Response("assign", u, id, 400, "InvalidWorker", NoUser)
            /\ UNCHANGED pending
       ELSE /\ pending' = pending \cup {AssignRequest(u, id, workerId, reports[id])}
            /\ UNCHANGED res

\* await report.save() and the 200 of the assignment
AssignSave(p) ==
    /\ p.op = "assign"
    /\ reports' = [reports EXCEPT ![p.id] = save(@, p)]
    /\ pending' = pending \ {p}
    /\ res' = Response("assign", p.user, p.id, 200, "Assigned", p.worker)
    /\ UNCHANGED <<users, now, claimed, facilities, accounts>>

----------------------------------------------------------------------------
Next ==
    \/ \E u \in Users : Report(u)
    \/ \E p \in pending : ReportSave(p)
    \/ \E p \in pending : ReportCredit(p)
    \/ \E p \in pending : ReportCreditFails(p)
    \/ \E u \in Users, id \in ReportIds : Claim(u, id)
    \/ \E p \in pending : ClaimSave(p)
    \/ \E u \in Users, id \in ReportIds, status \in Statuses :
          \E notes \in NotesFor(status) : Status(u, id, status, notes)
    \/ \E p \in pending : StatusSave(p)
    \/ \E u \in Users, id \in ReportIds, workerId \in Users : Assign(u, id, workerId)
    \/ \E p \in pending : AssignSave(p)

Spec == Init /\ [][Next]_vars

----------------------------------------------------------------------------
(* The lifecycle with saves that fail: save() rejects, the handler's catch  *)
(* answers 500, and nothing is written                                      *)

\* await wasteReport.save() rejects: the catch of POST /report
ReportSaveFails(p) ==
    /\ p.op = "report"
    /\ p.id = 0
    /\ pending' = pending \ {p}
    /\ res' = Response("report", p.user, 0, 500, "ServerError", NoUser)
    /\ UNCHANGED <<reports, users, now, claimed, facilities, accounts>>

\* await report.save() rejects: the catch of the claim, status and assign
\* handlers
SaveFails(p) ==
    /\ p.op \in {"claim", "status", "assign"}
    /\ pending' = pending \ {p}
    /\ res' = Response(p.op, p.user, p.id, 500, "ServerError", NoUser)
    /\ UNCHANGED <<reports, users, now, claimed, facilities, accounts>>

NextFailures ==
    \/ Next
    \/ \E p \in pending : ReportSaveFails(p)
    \/ \E p \in pending : SaveFails(p)

SpecFailures == Init /\ [][NextFailures]_vars

----------------------------------------------------------------------------
(* Claims and status updates over two stored reports *)

FrameIds == {1, 2}

\* a report nobody has claimed and a report that w1 has claimed
FrameReports ==
    {NewReport("c1"),
     [NewReport("c1") EXCEPT !.assignedWorker = "w1", !.status = "assigned"]}

InitFrame ==
    /\ accounts = [u \in Users |-> NewAccount]
    /\ reports \in [FrameIds -> FrameReports]
    /\ users = [u \in Users |-> NewRewards]
    /\ pending = {}
    /\ now = 0
    /\ res = NoResponse
    /\ claimed = [id \in FrameIds |-> {}]
    /\ facilities = <<>>

NextFrame ==
    \/ \E u \in Workers, id \in FrameIds : Claim(u, id)
    \/ \E p \in pending : ClaimSave(p)
    \/ \E u \in Workers, id \in FrameIds, status \in {"in_progress", "completed"} :
          Status(u, id, status, NoNotes)
    \/ \E p \in pending : StatusSave(p)

SpecFrame == InitFrame /\ [][NextFrame]_vars

----------------------------------------------------------------------------
(* Report creations that run side by side: each handler holds the copy of   *)
(* the user that authenticate loaded for it                                 *)

NextCredits ==
    \/ \E u \in Users : Submit(u, MaxSubmitted, <<>>)
    \/ \E p \in pending : ReportSave(p)
    \/ \E p \in pending : ReportCredit(p)

SpecCredits == Init /\ [][NextCredits]_vars

----------------------------------------------------------------------------
(* The reward ledger alone: calls of user.addRewardPoints(points), one after *)
(* the other, on users that start as new users                              *)

\* await user.addRewardPoints(points) on the freshly loaded user
Credit(u, points) ==
    /\ users[u].totalEarned + points <= MaxTotal
    /\ users' = [users EXCEPT ![u] = saveRewards(@, @, addRewardPoints(@, points))]
    /\ UNCHANGED <<reports, pending, now, res, claimed, facilities, accounts>>

NextLedger == \E u \in Citizens, points \in CreditPoints : Credit(u, points)

SpecLedger == Init /\ [][NextLedger]_vars

----------------------------------------------------------------------------
(* The read routes: GET /reports/nearby, GET /api/facilities and            *)
(* GET /image/:filename.  They write nothing, so a run is one request that  *)
(* is answered over collections that creation and the lifecycle can leave.  *)

\* a parameter of req.query is a set: empty when absent, else its one value
OrDefault(param, default) == IF param = {} THEN default ELSE CHOOSE v \in param : TRUE

\* the response of a read route, with the request it answers
Answer(op, u, q, code, msg, body) ==
    [op |-> op, user |-> u, query |-> q, code |-> code, msg |-> msg, body |-> body]

\* the distance of two places, in metres
Distance(a, b) == IF a >= b THEN a - b ELSE b - a

\* $near that leaves the documents in their stored order
RECURSIVE NearUnsorted(_, _, _)
NearUnsorted(coll, ids, point) ==
    IF ids = {} THEN <<>>
    ELSE LET first == CHOOSE i \in ids : \A j \in ids : i <= j
         IN <<first>> \o NearUnsorted(coll, ids \ {first}, point)

\* $near: the documents ids of coll, nearest to the point first
RECURSIVE Near(_, _, _)
Near(coll, ids, point) ==
    IF ids = {} THEN <<>>
    ELSE LET first == CHOOSE i \in ids : \A j \in ids :
                 \/ Distance(coll[i].location, point) < Distance(coll[j].location, point)
                 \/ /\ Distance(coll[i].location, point) = Distance(coll[j].location, point)
                    /\ i <= j
         IN <<first>> \o Near(coll, ids \ {first}, point)

\* a find without $near: the documents ids in their natural order
RECURSIVE Natural(_)
Natural(ids) ==
    IF ids = {} THEN <<>>
    ELSE LET first == CHOOSE i \in ids : \A j \in ids : i <= j
         IN <<first>> \o Natural(ids \ {first})

\* cursor.limit(n); limit(0) sets no limit
Limit(list, n) == IF n = 0 \/ Len(list) <= n THEN list ELSE SubSeq(list, 1, n)

----------------------------------------------------------------------------
(* GET /reports/nearby *)

\* radius = 10000
NearbyRadius == 10000

\* .limit(100)
ReportLimit == 100

\* req.query of the route
NearbyQueries ==
    [longitude : {{}, {0}},
     latitude : {{}, {0}, {10000}},
     radius : {{}, {5000}},
     includeAssigned : {{}, {"false"}, {"true"}}]

\* includeAssigned with the default 'true'
IncludeAssignedDefaultTrue(q) == OrDefault(q.includeAssigned, "true")

\* includeAssigned = 'false'
IncludeAssigned(q) == OrDefault(q.includeAssigned, "false")

\* filter.$or: no assignedWorker, or the caller
NearbyFilter(u, q, doc) ==
    IncludeAssigned(q) = "false" => doc.assignedWorker \in {NoUser, u}

\* authenticate, authorize('waste_worker'), the check of the coordinates and
\* WasteReport.find(filter).limit(100)
NearbyReports(u, q) ==
    /\ res = NoResponse
    /\ res' =
         IF ~authorize(u, {"waste_worker"})
         THEN Answer("nearby", u, q, 403, "Forbidden", <<>>)
         ELSE IF q.longitude = {} \/ q.latitude = {}
         THEN Answer("nearby", u, q, 400, "CoordinatesRequired", <<>>)
         ELSE LET point == OrDefault(q.latitude, 0)
                  found == {i \in Stored :
                               /\ Distance(reports[i].location, point)
                                      <= OrDefault(q.radius, NearbyRadius)
                               /\ NearbyFilter(u, q, reports[i])}
              IN Answer("nearby", u, q, 200, "ok",
                        Limit(Near(reports, found, point), ReportLimit))
    /\ UNCHANGED <<reports, users, pending, now, claimed, facilities, accounts>>

----------------------------------------------------------------------------
(* GET /api/facilities *)

\* radius = 10000
FacilityRadius == 10000

\* limit = 50
FacilityLimit == 50

FacilityTypes == {"recycling_center", "landfill"}

\* a stored facility
Facility(type, location, isActive) ==
    [type |-> type,
     location |-> location,
     isActive |-> isActive,
     acceptedWasteTypes |-> IF type = "recycling_center"
                            THEN {"plastic", "paper"} ELSE {"mixed"}]

\* req.query of the route
FacilityQueries ==
    [type : {{}, {"all"}, {"landfill"}},
     wasteType : {{}, {"plastic"}},
     longitude : {{}, {0}},
     latitude : {{}, {0}, {10000}},
     radius : {{}, {5000}},
     limit : {{}, {1}, {1000}}]

\* query = { isActive: true }, query.type and query.acceptedWasteTypes
FacilityFilter(q, doc) ==
    /\ doc.isActive
    /\ q.type \notin {{}, {"all"}} => doc.type \in q.type
    /\ q.wasteType \notin {{}, {"all"}} => q.wasteType \subseteq doc.acceptedWasteTypes

\* optionalAuth, and Facility.find with $near when both coordinates are given,
\* Facility.find(query) otherwise
Facilities(u, q) ==
    /\ res = NoResponse
    /\ LET match == {i \in 1..Len(facilities) : FacilityFilter(q, facilities[i])}
           point == OrDefault(q.latitude, 0)
           near == {i \in match : Distance(facilities[i].location, point)
                                      <= OrDefault(q.radius, FacilityRadius)}
           limit == OrDefault(q.limit, FacilityLimit)
       IN res' = IF q.longitude # {} /\ q.latitude # {}
                 THEN Answer("facilities", u, q, 200, "ok",
                             Limit(Near(facilities, near, point), limit))
                 ELSE Answer("facilities", u, q, 200, "ok",
                             Limit(Natural(match), limit))
    /\ UNCHANGED <<reports, users, pending, now, claimed, facilities, accounts>>

\* the reports a query can find: unclaimed ones and claimed ones
LocatedReports ==
    {[NewReport(c) EXCEPT
         !.location = place,
         !.assignedWorker = w,
         !.status = IF w = NoUser THEN "reported" ELSE "assigned"] :
     c \in Citizens, place \in Places, w \in Workers \cup {NoUser}}

StoredFacilities ==
    {Facility(type, place, isActive) :
     type \in FacilityTypes, place \in Places, isActive \in BOOLEAN}

\* the collections with at most MaxStored documents of the set docs
Collections(docs) == UNION {[1..n -> docs] : n \in 0..MaxStored}

\* a collection of one document more than .limit(100) lets through
Crowd(doc) == [i \in 1..(ReportLimit + 1) |-> doc]

InitDiscovery ==
    /\ accounts = [u \in Users |-> NewAccount]
    /\ users = [u \in Users |-> NewRewards]
    /\ pending = {}
    /\ now = 0
    /\ res = NoResponse
    /\ claimed = [id \in ReportIds |-> {}]
    /\ \/ reports \in Collections(LocatedReports) /\ facilities = <<>>
       \/ reports = <<>> /\ facilities \in Collections(StoredFacilities)
       \/ /\ reports = Crowd([NewReport("c1") EXCEPT !.location = 12000])
          /\ facilities = <<>>
       \/ /\ reports = <<>>
          /\ facilities = Crowd(Facility("landfill", 12000, TRUE))

NextDiscovery ==
    \/ \E u \in Users, q \in NearbyQueries : NearbyReports(u, q)
    \/ \E u \in Citizens \cup {NoUser}, q \in FacilityQueries : Facilities(u, q)

SpecDiscovery == InitDiscovery /\ [][NextDiscovery]_vars

----------------------------------------------------------------------------
(* GET /image/:filename *)

\* a text is the sequence of its pieces; the empty text is <<>>
Bearer == "Bearer "

\* jwt.sign({ userId }, secret, { expiresIn }) of generateTokens: the payload
\* is the userId and iat, the second of issue, and the signature is a
\* function of the payload and the secret; Jwt[userId][secret][iat + 1]
Jwt ==
    [c1 |-> [JWT_SECRET |-> <<"jwt.c1", "jwt.c1.1", "jwt.c1.2">>,
             JWT_REFRESH_SECRET |-> <<"refresh.c1", "refresh.c1.1", "refresh.c1.2">>]]

sign(u, secret, iat) == Jwt[u][secret][iat + 1]

SignedWith(secret) == {Jwt[u][secret][i] : u \in DOMAIN Jwt, i \in 1..(MaxSeconds + 1)}

\* the tokens signed with JWT_SECRET and not expired, and their userId
Signed == {"jwt.w1", "jwt.a1"} \cup SignedWith("JWT_SECRET")

userId(jwt) ==
    IF jwt \in SignedWith("JWT_SECRET") \cup SignedWith("JWT_REFRESH_SECRET")
    THEN "c1"
    ELSE IF jwt = "jwt.a1" THEN "a1" ELSE "w1"

\* jwt.verify that accepts every token
verifyAny(token) == token # <<>>

\* jwt.verify(token, process.env.JWT_SECRET) does not throw
verify(token) == Len(token) = 1 /\ token[1] \in Signed

\* authorization.replace('Bearer ', ''): the first occurrence is removed
replace(text) ==
    IF \E i \in 1..Len(text) : text[i] = Bearer
    THEN LET first == CHOOSE i \in 1..Len(text) :
                 /\ text[i] = Bearer
                 /\ \A j \in 1..(i - 1) : text[j] # Bearer
         IN SubSeq(text, 1, first - 1) \o SubSeq(text, first + 1, Len(text))
    ELSE text

\* req.query.token || req.headers.authorization?.replace('Bearer ', '')
TokenOf(q) == IF q.token # <<>> THEN q.token ELSE replace(q.authorization)

Filenames == {"f1.jpg", "f2.jpg"}

NoData == "none"

\* an element of report.images
ImageFile(filename, data) == [filename |-> filename, data |-> data]

\* the requests of the route: req.params, req.query.token and the
\* Authorization header
ImageQueries ==
    [filename : Filenames,
     token : {<<>>, <<"jwt.w1">>, <<"forged">>},
     authorization : {<<>>, <<Bearer>>, <<Bearer, "jwt.c1">>, <<"jwt.c1">>,
                      <<Bearer, "forged">>}]

\* the reports that carry the image filename
Holders(filename) ==
    {i \in Stored : \E k \in 1..Len(reports[i].images) :
                        reports[i].images[k].filename = filename}

\* report.images.find(img => img.filename === filename)
find(images, filename) ==
    images[CHOOSE k \in 1..Len(images) :
               /\ images[k].filename = filename
               /\ \A j \in 1..(k - 1) : images[j].filename # filename]

\* the handler: the token, jwt.verify, WasteReport.findOne and the image;
\* a run makes one image request
Image(q) ==
    /\ res.op # "image"
    /\ IF TokenOf(q) = <<>>
       THEN res' = Answer("image", NoUser, q, 401, "NoToken", NoData)
       ELSE IF ~verify(TokenOf(q))
       THEN res' = Answer("image", NoUser, q, 401, "InvalidToken", NoData)
       ELSE IF Holders(q.filename) = {}
       THEN res' = Answer("image", userId(TokenOf(q)[1]), q, 404, "ImageNotFound", NoData)
       ELSE \E i \in Holders(q.filename) :
               LET image == find(reports[i].images, q.filename)
               IN res' = IF image.data = NoData
                         THEN Answer("image", userId(TokenOf(q)[1]), q, 404,
                                     "ImageDataNotFound", NoData)
                         ELSE Answer("image", userId(TokenOf(q)[1]), q, 200,
                                     "ok", image.data)
    /\ UNCHANGED <<reports, users, pending, now, claimed, facilities, accounts>>

\* the images of a stored report
StoredImages ==
    {<<>>,
     <<ImageFile("f1.jpg", "bytes1")>>,
     <<ImageFile("f2.jpg", "bytes2")>>,
     <<ImageFile("f1.jpg", "bytes1"), ImageFile("f2.jpg", "bytes2")>>,
     <<ImageFile("f1.jpg", "bytes3")>>}

ReportsWithImages ==
    {[NewReport(c) EXCEPT !.images = images] : c \in Citizens, images \in StoredImages}

InitImage ==
    /\ accounts = [u \in Users |-> NewAccount]
    /\ users = [u \in Users |-> NewRewards]
    /\ pending = {}
    /\ now = 0
    /\ res = NoResponse
    /\ claimed = [id \in ReportIds |-> {}]
    /\ reports \in Collections(ReportsWithImages)
    /\ facilities = <<>>

NextImage == \E q \in ImageQueries : Image(q)

SpecImage == InitImage /\ [][NextImage]_vars

----------------------------------------------------------------------------
(* POST /report with an uploaded file, and GET /image/:filename after it *)

\* generateUniqueFilename(file.originalname): a name made of the clock and of
\* Math.random(), any name of Filenames
\* images.push({ filename: generateUniqueFilename(...), data: file.buffer,
\*               url: `/api/waste/image/${generateUniqueFilename(...)}` })
UploadedImage(filename, data, urlname) ==
    [filename |-> filename, data |-> data, url |-> <<"/api/waste/image/", urlname>>]

\* the images array of a request with one file, for every outcome of the two
\* calls of generateUniqueFilename
Uploads ==
    {<<UploadedImage(filename, data, urlname)>> :
     filename \in Filenames, data \in {"bytes1", "bytes2"}, urlname \in Filenames}

NextUpload ==
    \/ \E u \in Citizens, images \in Uploads :
          Submit(u, Cardinality(Filenames), images)
    \/ \E p \in pending : ReportSave(p)
    \/ \E p \in pending : ReportCredit(p)
    \/ \E p \in pending : ReportCreditFails(p)
    \/ \E q \in ImageQueries : Image(q)

SpecUpload == Init /\ [][NextUpload]_vars

----------------------------------------------------------------------------
(* Sessions: login, refresh, logout (routes/auth.js), the authenticate     *)
(* middleware (middleware/auth.js) and PUT /api/admin/users/:id/status.    *)
(* The requests are served one after another; `now` is the clock in        *)
(* seconds.                                                                *)

\* generateTokens(userId) at the second `now`
generateTokens(u) ==
    [accessToken |-> sign(u, "JWT_SECRET", now),
     refreshToken |-> sign(u, "JWT_REFRESH_SECRET", now)]

\* authenticate: the token of the Authorization header, jwt.verify,
\* User.findById and user.isActive; code 200 stands for next()
authenticate(header) ==
    LET token == IF header # <<>> /\ header[1] = Bearer THEN Tail(header) ELSE header
    IN IF token = <<>>
       THEN [code |-> 401, msg |-> "NoToken", user |-> NoUser]
       ELSE IF ~verify(token)
       THEN [code |-> 401, msg |-> "InvalidToken", user |-> NoUser]
       ELSE IF ~accounts[userId(token[1])].isActive
       THEN [code |-> 401, msg |-> "Deactivated", user |-> NoUser]
       ELSE [code |-> 200, msg |-> "ok", user |-> userId(token[1])]

\* the Authorization headers a client sends: none, or a token it was handed
Headers == {<<>>} \cup {<<Bearer, t>> : t \in UNION {accounts[u].issued : u \in Users}}

\* the clock
Second ==
    /\ now < MaxSeconds
    /\ now' = now + 1
    /\ UNCHANGED <<reports, users, pending, res, claimed, facilities, accounts>>

\* POST /auth/login with the email of u; password: comparePassword
Login(u, password) ==
    /\ UNCHANGED <<reports, users, pending, now, claimed, facilities>>
    /\ IF ~accounts[u].isActive
       THEN /\ res' = Answer("login", u, <<>>, 401, "Deactivated", NoData)
            /\ UNCHANGED accounts
       ELSE IF ~password
       THEN /\ res' = Answer("login", u, <<>>, 401, "InvalidCredentials", NoData)
            /\ UNCHANGED accounts
       ELSE LET tokens == generateTokens(u)
            IN /\ accounts' = [accounts EXCEPT
                      ![u].refreshToken = tokens.refreshToken,
                      ![u].issued = @ \cup {tokens.accessToken, tokens.refreshToken},
                      ![u].retired = @ \cup ({accounts[u].refreshToken} \ {NoToken})]
               /\ res' = Answer("login", u, <<>>, 200, "ok", tokens)

\* the tokens a client sends in the body of POST /auth/refresh
RefreshBodies == {<<>>} \cup {<<t>> : t \in UNION {accounts[u].issued : u \in Users}}

\* POST /auth/refresh with req.body.refreshToken
Refresh(body) ==
    /\ UNCHANGED <<reports, users, pending, now, claimed, facilities>>
    /\ IF body = <<>>
       THEN /\ res' = Answer("refresh", NoUser, body, 401, "NoToken", NoData)
            /\ UNCHANGED accounts
       ELSE IF body[1] \notin SignedWith("JWT_REFRESH_SECRET")
       THEN /\ res' = Answer("refresh", NoUser, body, 401, "TokenRefreshFailed", NoData)
            /\ UNCHANGED accounts
       ELSE LET u == userId(body[1])
                tokens == generateTokens(u)
            IN IF accounts[u].refreshToken # body[1]
               THEN /\ res' = Answer("refresh", u, body, 401, "InvalidRefreshToken", NoData)
                    /\ UNCHANGED accounts
               ELSE /\ accounts' = [accounts EXCEPT
                           ![u].refreshToken = tokens.refreshToken,
                           ![u].issued = @ \cup {tokens.accessToken, tokens.refreshToken},
                           ![u].retired = @ \cup {body[1]}]
                    /\ res' = Answer("refresh", u, body, 200, "ok", tokens)

\* POST /auth/logout
Logout(header) ==
    /\ UNCHANGED <<reports, users, pending, now, claimed, facilities>>
    /\ LET auth == authenticate(header)
       IN IF auth.code # 200
          THEN /\ res' = Answer("logout", NoUser, header, auth.code, auth.msg, NoData)
               /\ UNCHANGED accounts
          ELSE /\ accounts' = [accounts EXCEPT
                      ![auth.user].refreshToken = NoToken,
                      ![auth.user].retired = @ \cup ({accounts[auth.user].refreshToken} \ {NoToken})]
               /\ res' = Answer("logout", auth.user, header, 200, "ok", NoData)

\* GET /auth/me
Me(header) ==
    /\ UNCHANGED <<reports, users, pending, now, claimed, facilities, accounts>>
    /\ LET auth == authenticate(header)
       IN res' = Answer("me", auth.user, header, auth.code, auth.msg, NoData)

\* PUT /api/admin/users/:id/status with req.body.isActive
UserStatus(header, id, isActive) ==
    /\ UNCHANGED <<reports, users, pending, now, claimed, facilities>>
    /\ LET auth == authenticate(header)
       IN IF auth.code # 200
          THEN /\ res' = Answer("userStatus", NoUser, header, auth.code, auth.msg, NoData)
               /\ UNCHANGED accounts
          ELSE IF ~authorize(auth.user, {"admin"})
          THEN /\ res' = Answer("userStatus", auth.user, header, 403, "Forbidden", NoData)
               /\ UNCHANGED accounts
          ELSE /\ accounts' = [accounts EXCEPT ![id].isActive = isActive]
               /\ res' = Answer("userStatus", auth.user, header, 200, "ok", NoData)

\* the image requests of a client: a token it was handed, in the query
SessionImageQueries ==
    [filename : {"f1.jpg"},
     token : {<<t>> : t \in UNION {accounts[u].issued : u \in Users}},
     authorization : {<<>>}]

\* one report with an image is stored, and the administrator is logged in
InitAuth ==
    /\ accounts = [u \in Users |->
                      IF u \in Admins
                      THEN [NewAccount EXCEPT !.issued = {"jwt.a1"}]
                      ELSE NewAccount]
    /\ users = [u \in Users |-> NewRewards]
    /\ pending = {}
    /\ now = 0
    /\ res = NoResponse
    /\ claimed = [id \in ReportIds |-> {}]
    /\ reports = <<[NewReport("c1") EXCEPT !.images = <<ImageFile("f1.jpg", "bytes1")>>]>>
    /\ facilities = <<>>

NextAuth ==
    \/ Second
    \/ \E u \in DOMAIN Jwt, password \in BOOLEAN : Login(u, password)
    \/ \E body \in RefreshBodies : Refresh(body)
    \/ \E header \in Headers : Logout(header)
    \/ \E header \in Headers : Me(header)
    \/ \E header \in Headers, id \in DOMAIN Jwt, isActive \in BOOLEAN :
          UserStatus(header, id, isActive)
    \/ \E q \in SessionImageQueries : Image(q)

SpecAuth == InitAuth /\ [][NextAuth]_vars

----------------------------------------------------------------------------
(* The claims *)

\* C1: of the claim requests racing on one unassigned report exactly one is
\* answered Claimed: no report ever has two workers that were answered Claimed.
OneClaimWinner ==
    \A id \in ReportIds : Cardinality(claimed[id]) <= 1

\* C2: a present assignedWorker changes only in a step of the admin's
\* PUT /reports/:id/assign, never in a step of a claim.
OnlyAssignReassigns ==
    [][\A id \in Stored :
          (/\ reports[id].assignedWorker # NoUser
           /\ reports'[id].assignedWorker # reports[id].assignedWorker)
          => \E p \in pending : AssignSave(p)]_vars

\* C3: every stored report has assignedWorker absent exactly when its status
\* is reported or acknowledged.
AssignedIffPastAcknowledged ==
    \A id \in Stored :
        (reports[id].assignedWorker = NoUser)
            <=> (reports[id].status \in {"reported", "acknowledged"})

\* the transition table of the status state machine
TransitionTable ==
    {<<"reported", "acknowledged">>, <<"reported", "assigned">>,
     <<"reported", "rejected">>,
     <<"acknowledged", "assigned">>, <<"acknowledged", "rejected">>,
     <<"assigned", "in_progress">>, <<"assigned", "rejected">>,
     <<"in_progress", "completed">>, <<"in_progress", "rejected">>,
     <<"completed", "verified">>, <<"completed", "rejected">>}

\* C4: PUT /reports/:id/status writes a status only when (current, target) is
\* a pair of the transition table, and otherwise leaves the report as it is.
StatusFollowsTable ==
    [][\A p \in pending :
          StatusSave(p) =>
              \/ <<reports[p.id].status, p.status>> \in TransitionTable
              \/ reports'[p.id] = reports[p.id]]_vars

\* C5: a claim by worker B of a report whose assignedWorker is another worker
\* A is answered 400, already assigned, naming A; the handler saves nothing.
ClaimOfTakenReportFails ==
    [][\A u \in Workers, id \in Stored :
          (/\ reports[id].assignedWorker \notin {NoUser, u}
           /\ Claim(u, id))
          => /\ res' = Response("claim", u, id, 400, "AlreadyAssigned",
                                reports[id].assignedWorker)
             /\ pending' = pending
             /\ reports' = reports]_vars

\* C5, the case: worker B was told that the report is held by worker A
ClaimOfTakenReportSeen ==
    /\ res.op = "claim"
    /\ res.msg = "AlreadyAssigned"
    /\ res.id \in Stored
    /\ res.name \in Workers \ {res.user}
    /\ reports[res.id].assignedWorker = res.name

\* C6 as stated: a status update by a waste_worker of a report that is not
\* assigned to it is answered 403 whatever the target status, and saves nothing.
WorkerForbiddenAnyTarget ==
    [][\A u \in Workers, id \in Stored, status \in Statuses :
          \A notes \in NotesFor(status) :
          (/\ reports[id].assignedWorker # u
           /\ Status(u, id, status, notes))
          => /\ res'.code = 403
             /\ pending' = pending
             /\ reports' = reports]_vars

\* C6 amended: a status update by a waste_worker of a report that is not
\* assigned to it saves nothing; it is answered 403 for every target among
\* validStatuses, and 400 (invalid status) for any other target.
WorkerForbiddenValidTarget ==
    [][\A u \in Workers, id \in Stored, status \in Statuses :
          \A notes \in NotesFor(status) :
          (/\ reports[id].assignedWorker # u
           /\ Status(u, id, status, notes))
          => /\ res' = IF status \in validStatuses
                       THEN Response("status", u, id, 403, "NotAssignedToYou", NoUser)
                       ELSE Response("status", u, id, 400, "InvalidStatus", NoUser)
             /\ pending' = pending
             /\ reports' = reports]_vars

\* C6, the case: a worker was refused on a report with no assignedWorker
WorkerForbiddenSeen ==
    /\ res.op = "status"
    /\ res.code = 403
    /\ res.msg = "NotAssignedToYou"
    /\ res.user \in Workers
    /\ res.id \in Stored
    /\ reports[res.id].assignedWorker = NoUser

\* C7: every save of a status update to completed credits the reporter of
\* the report with reward points.
CompletionCreditsReporter ==
    [][\A p \in pending :
          (StatusSave(p) /\ p.status = "completed")
          => users'[reports[p.id].reporter].points
                 > users[reports[p.id].reporter].points]_vars

\* C8: the save of a status update to completed leaves the stored report with
\* status completed and actualCollection = {date: now, worker: actor, notes}.
CompletedStoresCollection ==
    [][\A p \in pending :
          (StatusSave(p) /\ p.status = "completed")
          => /\ reports'[p.id].status = "completed"
             /\ reports'[p.id].actualCollection =
                    {[date |-> now, worker |-> p.user, notes |-> p.notes]}]_vars

\* C9: actualCollection is populated only in the statuses completed, verified
\* and rejected, and always in the statuses completed and verified.
CollectionIffCompleted ==
    \A id \in Stored :
        /\ reports[id].actualCollection # {}
               => reports[id].status \in {"completed", "verified", "rejected"}
        /\ reports[id].status \in {"completed", "verified"}
               => reports[id].actualCollection # {}

\* C10: a rejected report keeps its status and its assignedWorker for ever.
RejectedIsTerminal ==
    [][\A id \in Stored :
          reports[id].status = "rejected"
          => /\ reports'[id].status = "rejected"
             /\ reports'[id].assignedWorker = reports[id].assignedWorker]_vars

\* C11: status never moves backwards: a report whose status is past assigned
\* never gets the status assigned again, and a report whose status is past
\* in_progress never gets the status in_progress again.
StatusNeverReturns ==
    [][\A id \in Stored :
          /\ reports[id].status \in {"in_progress", "completed", "verified", "rejected"}
                 => reports'[id].status # "assigned"
          /\ reports[id].status \in {"completed", "verified", "rejected"}
                 => reports'[id].status # "in_progress"]_vars

\* C12: only an admin moves a report to verified: a status update to verified
\* requested by a waste_worker is refused and saves nothing, and every step
\* that makes a status verified is the save of an admin's status update.
VerifiedOnlyByAdmin ==
    [][/\ \A u \in Workers, id \in Stored :
              Status(u, id, "verified", NoNotes)
              => /\ res'.code \in {400, 403}
                 /\ pending' = pending
                 /\ reports' = reports
       /\ \A id \in Stored :
              (reports[id].status # "verified" /\ reports'[id].status = "verified")
              => \E p \in pending : StatusSave(p) /\ role(p.user) = "admin"]_vars

\* C13: the save of an admin's PUT /reports/:id/assign never makes a completed,
\* verified or rejected report assigned again, and never leaves actualCollection
\* populated on a report whose status is before completed.
AssignKeepsStatusOrder ==
    [][\A p \in pending :
          AssignSave(p)
          => /\ reports[p.id].status \in {"completed", "verified", "rejected"}
                 => reports'[p.id].status # "assigned"
             /\ reports'[p.id].actualCollection # {}
                 => reports'[p.id].status \in {"completed", "verified", "rejected"}]_vars

\* C14: every report creation answered 201 has stored a report with status
\* reported, no assignedWorker and the caller as reporter, and its 201 comes
\* with a credit of 10 points to that reporter.
CreationStoresAndCredits ==
    [][\A p \in pending :
          /\ ReportSave(p)
             => /\ Len(reports') = Len(reports) + 1
                /\ reports'[Len(reports')].status = "reported"
                /\ reports'[Len(reports')].assignedWorker = NoUser
                /\ reports'[Len(reports')].reporter = p.user
          /\ (/\ p.op = "report"
              /\ p \notin pending'
              /\ res' = Response("report", p.user, p.id, 201, "Created", NoUser))
             => /\ users'[p.user].points = users[p.user].points + 10
                /\ users'[p.user].totalEarned = users[p.user].totalEarned + 10]_vars

\* C15: each credit of p points adds exactly p to rewards.points and exactly p
\* to rewards.totalEarned of the credited user, so that over any sequence of
\* credits both fields grow by the sum of the credited points.
CreditAddsPoints ==
    [][\A u \in Citizens, p \in CreditPoints :
          Credit(u, p)
          => /\ users'[u].points = users[u].points + p
             /\ users'[u].totalEarned = users[u].totalEarned + p]_vars

\* C15, the case: credits of 10 and of 2500 points have been added up
CreditsAddedUp ==
    \E u \in Citizens : users[u].points = 2510 /\ users[u].totalEarned = 2510

\* the tier of an amount of points earned
Tier(totalEarned) ==
    IF totalEarned >= 10000 THEN "platinum"
    ELSE IF totalEarned >= 5000 THEN "gold"
    ELSE IF totalEarned >= 1000 THEN "silver"
    ELSE "bronze"

\* C16: in every state reached from new users by credits, the level of a user
\* is the tier of its totalEarned: bronze below 1000, silver from 1000, gold
\* from 5000, platinum from 10000.
LevelIsTierOfTotal ==
    \A u \in Users : users[u].level = Tier(users[u].totalEarned)

\* C16, the case: a user stands exactly on the threshold of gold
OnGoldThreshold ==
    \E u \in Citizens : users[u].totalEarned = 5000 /\ users[u].level = "gold"

\* the tiers below a tier
TiersBelow(level) ==
    IF level = "platinum" THEN {"bronze", "silver", "gold"}
    ELSE IF level = "gold" THEN {"bronze", "silver"}
    ELSE IF level = "silver" THEN {"bronze"}
    ELSE {}

\* C17: no credit lowers the tier of a user.
TierNeverDecreases ==
    [][\A u \in Users : users'[u].level \notin TiersBelow(users[u].level)]_vars

\* C17, the case: a user has climbed from bronze to platinum
ReachedPlatinum ==
    \E u \in Citizens : users[u].level = "platinum" /\ users[u].points > 10000

\* C18: GET /image/:filename sends image bytes only for a request whose bearer
\* token, of the query or of the Authorization header, is a signed token; a
\* request with no token or an invalid one is answered 401 with no bytes and a
\* message that depends on the token alone, whether or not the image exists;
\* a request with a signed token for a filename of no stored report is
\* answered 404.
ImageNeedsToken ==
    res.op = "image" =>
        LET q == res.query
            credential == IF q.token # <<>> THEN q.token
                          ELSE IF q.authorization # <<>> /\ q.authorization[1] = Bearer
                          THEN Tail(q.authorization)
                          ELSE q.authorization
            signed == \E jwt \in Signed : credential = <<jwt>>
        IN /\ res.body # NoData => signed
           /\ ~signed => /\ res.code = 401
                         /\ res.body = NoData
                         /\ res.msg = IF credential = <<>> THEN "NoToken"
                                      ELSE "InvalidToken"
           /\ (signed /\ Holders(q.filename) = {}) => res.code = 404

\* C18, the case: a request with a forged token for a stored image was refused
ForgedTokenRefused ==
    /\ res.op = "image"
    /\ res.code = 401
    /\ res.query.token = <<"forged">>
    /\ Holders(res.query.filename) # {}

\* C19: with includeAssigned absent, the reports GET /reports/nearby returns to
\* worker W are unclaimed or claimed by W.
NearbyHidesOthersClaims ==
    (res.op = "nearby" /\ res.code = 200 /\ res.query.includeAssigned = {})
    => \A k \in 1..Len(res.body) :
           reports[res.body[k]].assignedWorker \in {NoUser, res.user}

\* C19, the case: of two reports in range, the one claimed by the caller was
\* returned and the one claimed by the other worker was not
OthersClaimHidden ==
    /\ res.op = "nearby"
    /\ res.code = 200
    /\ res.query.includeAssigned = {}
    /\ res.query.radius = {}
    /\ res.query.latitude = {10000}
    /\ Len(res.body) = 1
    /\ reports[res.body[1]].assignedWorker = res.user
    /\ \E i \in Stored : reports[i].assignedWorker \in Workers \ {res.user}

\* C20: a discovery query without longitude or latitude is answered
\* successfully with the unordered listing of the documents its filters
\* match, the nearby reports query as well as the facilities query.
DiscoveryWithoutPoint ==
    /\ (/\ res.op = "nearby"
        /\ role(res.user) = "waste_worker"
        /\ (res.query.longitude = {} \/ res.query.latitude = {}))
       => /\ res.code = 200
          /\ {res.body[k] : k \in 1..Len(res.body)}
                 = {i \in Stored : NearbyFilter(res.user, res.query, reports[i])}
    /\ (/\ res.op = "facilities"
        /\ (res.query.longitude = {} \/ res.query.latitude = {}))
       => /\ res.code = 200
          /\ {res.body[k] : k \in 1..Len(res.body)}
                 \subseteq {i \in 1..Len(facilities) :
                               FacilityFilter(res.query, facilities[i])}
          /\ Len(res.body) <= OrDefault(res.query.limit, FacilityLimit)

\* C21: whatever the request parameters, the nearby reports query and the
\* facilities query each return at most 100 entries.
ResultsCapped ==
    res.op \in {"nearby", "facilities"} => Len(res.body) <= 100

\* C22 as stated: a query with a point returns only documents within the
\* radius of the point, in strictly ascending order of distance.
NearStrictlyAscending ==
    (res.op \in {"nearby", "facilities"} /\ res.code = 200
        /\ res.query.longitude # {} /\ res.query.latitude # {})
    => LET coll == IF res.op = "nearby" THEN reports ELSE facilities
           point == OrDefault(res.query.latitude, 0)
           far(k) == Distance(coll[res.body[k]].location, point)
       IN /\ \A k \in 1..Len(res.body) : far(k) <= OrDefault(res.query.radius, 10000)
          /\ \A k \in 1..(Len(res.body) - 1) : far(k) < far(k + 1)

\* C22 amended: a query with a point returns only documents within the radius
\* of the point, nearest first: no entry is farther than the entry after it
\* (documents at the same distance follow each other in either order).
NearAscending ==
    (res.op \in {"nearby", "facilities"} /\ res.code = 200
        /\ res.query.longitude # {} /\ res.query.latitude # {})
    => LET coll == IF res.op = "nearby" THEN reports ELSE facilities
           point == OrDefault(res.query.latitude, 0)
           far(k) == Distance(coll[res.body[k]].location, point)
       IN /\ \A k \in 1..Len(res.body) : far(k) <= OrDefault(res.query.radius, 10000)
          /\ \A k \in 1..(Len(res.body) - 1) : far(k) <= far(k + 1)

\* C22, the case: the report stored second is nearer and is returned first,
\* and a smaller radius would have left the other one out
NearerReturnedFirst ==
    /\ res.op = "nearby"
    /\ res.code = 200
    /\ res.query.radius = {}
    /\ res.body = <<2, 1>>
    /\ reports[1].location # reports[2].location

\* C23: a claim request changes nothing but assignedWorker and status of the
\* report it claims: no user's rewards and no other report change; and the
\* save of a status update leaves assignedWorker as it is.
ClaimWritesOnlyItsReport ==
    [][/\ \A u \in Workers, id \in Stored :
              Claim(u, id) => (reports' = reports /\ users' = users)
       /\ \A p \in pending :
              ClaimSave(p)
              => /\ users' = users
                 /\ \A id \in Stored \ {p.id} : reports'[id] = reports[id]
                 /\ reports'[p.id] =
                        [reports[p.id] EXCEPT
                            !.assignedWorker = reports'[p.id].assignedWorker,
                            !.status = reports'[p.id].status]
       /\ \A p \in pending :
              StatusSave(p)
              => reports'[p.id].assignedWorker = reports[p.id].assignedWorker]_vars

\* C23, the case: a worker has claimed the second report, and the first one
\* is held by nobody or by the other worker
ClaimedBesideAnother ==
    /\ res.op = "claim"
    /\ res.code = 200
    /\ res.id = 2
    /\ Len(reports) = 2
    /\ reports[2].assignedWorker = res.user
    /\ reports[1].assignedWorker # res.user

\* C24: no failed write is swallowed: a handler whose save of a report or
\* whose reward credit fails answers with a failure; in particular a report
\* creation whose credit failed does not answer 201.
NoErrorSwallowed ==
    [][\A p \in pending :
          (ReportSaveFails(p) \/ SaveFails(p) \/ ReportCreditFails(p))
          => res'.code >= 400]_vars

\* C25: a claim by the worker who already is the assignedWorker of the report
\* writes nothing, leaves assignedWorker and status as they are, and is not
\* answered with a failure.
ClaimBySelfIsNoOp ==
    [][\A u \in Workers, id \in Stored :
          (reports[id].assignedWorker = u /\ Claim(u, id))
          => /\ reports' = reports
             /\ pending' = pending
             /\ res'.code < 400]_vars

\* C26: when worker A's status update runs beside an admin's reassignment of
\* the report (no other worker has claimed it), the save of the status update
\* changes the status only while A is still the report's assignedWorker.
StatusWrittenByHolder ==
    [][\A p \in pending :
          (/\ StatusSave(p)
           /\ role(p.user) = "waste_worker"
           /\ claimed[p.id] \subseteq {p.user}
           /\ reports'[p.id].status # reports[p.id].status)
          => reports[p.id].assignedWorker = p.user]_vars

\* C27: no reward credit is lost: once the report creations of a citizen have
\* all been answered, the citizen's points and totalEarned are 10 for each
\* report the citizen has created.
CreditsSumUp ==
    \A u \in Citizens :
        (\A p \in pending : p.user # u)
        => LET created == Cardinality({i \in Stored : reports[i].reporter = u})
           IN /\ users[u].points = 10 * created
              /\ users[u].totalEarned = 10 * created

\* C28: the url of every image stored by a report creation designates that
\* image: a GET /image/<name> with the name of the url and a signed token is
\* answered with the bytes stored under the image's filename.
UrlFetchesItsImage ==
    [][\A q \in ImageQueries, i \in Stored :
          \A k \in 1..Len(reports[i].images) :
              (/\ Image(q)
               /\ verify(TokenOf(q))
               /\ q.filename = reports[i].images[k].url[2])
              => /\ res'.code = 200
                 /\ res'.body = reports[i].images[k].data]_vars

\* C29: while a user is deactivated, every request that carries a token the
\* user was handed is answered 401: the routes behind authenticate, the
\* image route and the token refresh.
DeactivatedRejected ==
    [][\A u \in DOMAIN Jwt : \A t \in accounts[u].issued :
          ~accounts[u].isActive =>
              /\ (\/ Me(<<Bearer, t>>)
                  \/ Logout(<<Bearer, t>>)
                  \/ \E id \in DOMAIN Jwt, isActive \in BOOLEAN :
                        UserStatus(<<Bearer, t>>, id, isActive)
                  \/ Refresh(<<t>>)) => res'.code = 401
              /\ \A q \in SessionImageQueries :
                    (TokenOf(q) = <<t>> /\ Image(q)) => res'.code = 401]_vars

\* C30: a refresh token that a successful refresh or a later login has
\* replaced, or a logout has cleared, is answered 401 by POST /auth/refresh,
\* and no tokens are issued.
ReplacedTokenRefused ==
    [][\A u \in DOMAIN Jwt : \A t \in accounts[u].retired :
          Refresh(<<t>>) => (res'.code = 401 /\ accounts' = accounts)]_vars

====
